---- MODULE Spec2Model ----
(***************************************************************************)
(* TalkNest socket server (setupSocket): the userId -> socketId map, the   *)
(* connection / disconnect handlers, and the two asynchronous delivery     *)
(* handlers sendMessage and sendMessageOnChannel, together with the        *)
(* Messages and Channel collections they write and the history fetches     *)
(* that read them.                                                         *)
(*                                                                         *)
(* Node runs every handler and every continuation of an await to           *)
(* completion before anything else runs; an await is the only place where  *)
(* other handlers interleave.  Each action below is therefore one          *)
(* synchronous stretch of code: the result of the awaited persistence call *)
(* together with the code that runs up to the next await.                  *)
(***************************************************************************)
EXTENDS Integers, Sequences, FiniteSets, TLC

\* ------------------------------------------------------------------ bounds
MaxSockets == 3
MaxDeliveries == 2

\* ------------------------------------------------------------ data domains
Users == {"u1", "u2", "u3"}
NoUser == "none"
\* c1 is the id Channel.create hands out; c0 is an id no channel ever has
ChannelIds == {"c0", "c1"}
CreatableIds == {"c1"}
NoChannel == "nochannel"
NoSocket == 0
NoMessage == 0

\* request bodies the CreateChannel endpoint is called with
ChannelCreators == {"u1"}
ChannelMemberLists == {<<"u1", "u2">>, <<"u2", "u3">>}

VARIABLES
    sockets,        \* sequence of sockets accepted so far; a socket's id is its index
    userSocketMap,  \* userId -> socketId, NoSocket when the key is absent
    messages,       \* the Messages collection; a record's _id is its index
    channels,       \* the Channel collection: channel id -> document
    deliveries,     \* the invocations of the two delivery handlers
    emitted,        \* every io.to(socketId).emit(...) in the order it happened
    boundThroughout,\* per invocation: no userId of its payload left the map while it ran
    provider        \* the client's SocketProvider: userInfo, the socket ref, the sockets it made

vars == <<sockets, userSocketMap, messages, channels, deliveries, emitted, boundThroughout,
          provider>>

\* ----------------------------------------------------------------- helpers
SocketIds == 1..Len(sockets)
DeliveryIds == 1..Len(deliveries)
MessageIds == 1..Len(messages)

Range(s) == {s[i] : i \in 1..Len(s)}

Count(s, x) == Cardinality({i \in 1..Len(s) : s[i] = x})

IsConnected(h) == h \in SocketIds /\ sockets[h].connected

\* one io.to(socketId).emit(event, data): data is the populated message of
\* invocation d; an emit to the room of a socket that has left reaches nobody
Emit(event, to, msg, d) ==
    [event |-> event, to |-> to, msg |-> msg, d |-> d, live |-> IsConnected(to)]

NoChannelDoc == [exists |-> FALSE, members |-> <<>>, admin |-> <<>>, messages |-> <<>>]

\* -------------------------------------------------------------------- Init
Init ==
    /\ sockets = <<>>
    /\ userSocketMap = [u \in Users |-> NoSocket]
    /\ messages = <<>>
    /\ channels = [c \in ChannelIds |-> NoChannelDoc]
    /\ deliveries = <<>>
    /\ emitted = <<>>
    /\ boundThroughout = <<>>
    /\ provider = [userInfo |-> NoUser, pending |-> FALSE, cleanup |-> FALSE,
                   current |-> NoSocket, sockets |-> <<>>]

\* ------------------------------------------------ connection and disconnect
\* io.on("connection"): userId is the handshake query parameter, possibly absent
\* Connection that sets the new socket's id under every key the map lacks as well
ConnectionBindsAbsentKeys(userId) ==
    /\ Len(sockets) < MaxSockets
    /\ sockets' = Append(sockets, [userId |-> userId, connected |-> TRUE])
    /\ userSocketMap' = IF userId # NoUser
                        THEN [u \in Users |->
                                 IF u = userId \/ userSocketMap[u] = NoSocket
                                 THEN Len(sockets) + 1 ELSE userSocketMap[u]]
                        ELSE userSocketMap
    /\ UNCHANGED <<messages, channels, deliveries, emitted, boundThroughout, provider>>

\* Connection setting the entry only when the userId has none yet
ConnectionKeepsFirst(userId) ==
    /\ Len(sockets) < MaxSockets
    /\ sockets' = Append(sockets, [userId |-> userId, connected |-> TRUE])
    /\ userSocketMap' = IF userId # NoUser /\ userSocketMap[userId] = NoSocket
                        THEN [userSocketMap EXCEPT ![userId] = Len(sockets) + 1]
                        ELSE userSocketMap
    /\ UNCHANGED <<messages, channels, deliveries, emitted, boundThroughout, provider>>

Connection(userId) ==
    /\ Len(sockets) < MaxSockets
    /\ sockets' = Append(sockets, [userId |-> userId, connected |-> TRUE])
    /\ userSocketMap' = IF userId # NoUser
                        THEN [userSocketMap EXCEPT ![userId] = Len(sockets) + 1]
                        ELSE userSocketMap
    /\ UNCHANGED <<messages, channels, deliveries, emitted, boundThroughout, provider>>

\* an invocation that has neither finished nor failed
InFlight(d) == deliveries[d].pc \notin {"done", "failed"}

\* the userIds the payload of invocation d names
Named(d) == {deliveries[d].sender, deliveries[d].receiver} \ {NoUser}

\* MatchingUsers comparing the map value with the socket object, not socket.id: no match
MatchingUsersNone(m, h) == {}

\* MatchingUsers looking the closing socket up by its userId, whatever socket the entry holds
MatchingUsersByUserId(m, h) == {u \in Users : m[u] # NoSocket /\ u = sockets[h].userId}

\* the entries of map m the scan of disconnect can meet first for socket h
MatchingUsers(m, h) == {u \in Users : m[u] = h}

\* UnbindResults that hands a deleted entry to another open socket of the same userId
UnbindResultsFallsBack(m, h) ==
    IF MatchingUsers(m, h) = {} THEN {m}
    ELSE {[m EXCEPT ![u] =
              IF \E g \in SocketIds \ {h} : sockets[g].connected /\ sockets[g].userId = u
              THEN CHOOSE g \in SocketIds \ {h} : sockets[g].connected /\ sockets[g].userId = u
              ELSE NoSocket] : u \in MatchingUsers(m, h)}

\* UnbindResults with the comparison left out of the loop: the first entry met is deleted
UnbindResultsUnconditional(m, h) ==
    IF \A u \in Users : m[u] = NoSocket THEN {m}
    ELSE {[m EXCEPT ![u] = NoSocket] : u \in {v \in Users : m[v] # NoSocket}}

\* the maps the loop of disconnect can leave: the first matching entry deleted, or m itself
UnbindResults(m, h) ==
    IF MatchingUsers(m, h) = {} THEN {m}
    ELSE {[m EXCEPT ![u] = NoSocket] : u \in MatchingUsers(m, h)}

\* disconnect(socket): delete the first entry whose value is socket.id, then break
disconnect(h) ==
    /\ IsConnected(h)
    /\ sockets' = [sockets EXCEPT ![h].connected = FALSE]
    /\ \E m \in UnbindResults(userSocketMap, h) :
          /\ userSocketMap' = m
          /\ boundThroughout' =
                [d \in DOMAIN boundThroughout |->
                    boundThroughout[d]
                    /\ ~(InFlight(d) /\ \E u \in Named(d) : m[u] # userSocketMap[u])]
    /\ UNCHANGED <<messages, channels, deliveries, emitted, provider>>

\* ------------------------------------------------------ channel management
\* CreateChannel: the creator becomes the only admin, the body's members the members
CreateChannel(c, creator, members) ==
    /\ ~channels[c].exists
    /\ channels' = [channels EXCEPT ![c] =
                       [exists |-> TRUE, members |-> members,
                        admin |-> <<creator>>, messages |-> <<>>]]
    /\ UNCHANGED <<sockets, userSocketMap, messages, deliveries, emitted, boundThroughout, provider>>

\* ---------------------------------------------------------- direct delivery
\* socket.on("sendMessage"): the two map lookups, then Message.create is awaited
sendMessage(h, sender, receiver) ==
    /\ IsConnected(h)
    /\ Len(deliveries) < MaxDeliveries
    /\ deliveries' = Append(deliveries,
           [kind |-> "direct", conn |-> h, sender |-> sender, receiver |-> receiver,
            channel |-> NoChannel,
            senderSocketId |-> userSocketMap[sender],
            receiverSocketId |-> userSocketMap[receiver],
            pc |-> "create", msgId |-> NoMessage])
    /\ boundThroughout' = Append(boundThroughout,
                                 \A u \in {sender, receiver} : userSocketMap[u] # NoSocket)
    /\ UNCHANGED <<sockets, userSocketMap, messages, channels, emitted, provider>>

\* Message.create(message) resolves: the record exists, findById is awaited
sendMessageCreated(d) ==
    /\ deliveries[d].kind = "direct"
    /\ deliveries[d].pc = "create"
    /\ messages' = Append(messages, [sender |-> deliveries[d].sender,
                                     receiver |-> deliveries[d].receiver])
    /\ deliveries' = [deliveries EXCEPT ![d].pc = "findById",
                                        ![d].msgId = Len(messages) + 1]
    /\ UNCHANGED <<sockets, userSocketMap, channels, emitted, boundThroughout, provider>>

\* DirectEmits with io.emit in place of io.to(socketId).emit: every open socket is served
DirectEmitsBroadcast(d) ==
    SelectSeq([h \in 1..Len(sockets) |-> Emit("recieveMessage", h, deliveries[d].msgId, d)],
              LAMBDA e : e.live)

\* DirectEmits with an emit that throws on a closed socket: the sender's emit is not reached
DirectEmitsStopAtFailure(d) ==
    IF deliveries[d].receiverSocketId # NoSocket /\ ~IsConnected(deliveries[d].receiverSocketId)
    THEN <<Emit("recieveMessage", deliveries[d].receiverSocketId, deliveries[d].msgId, d)>>
    ELSE (IF deliveries[d].receiverSocketId # NoSocket
          THEN <<Emit("recieveMessage", deliveries[d].receiverSocketId, deliveries[d].msgId, d)>>
          ELSE <<>>)
         \o
         (IF deliveries[d].senderSocketId # NoSocket
          THEN <<Emit("recieveMessage", deliveries[d].senderSocketId, deliveries[d].msgId, d)>>
          ELSE <<>>)

\* the emits of sendMessage: receiver first, then sender, each if its socket id was found
DirectEmits(d) ==
    (IF deliveries[d].receiverSocketId # NoSocket
     THEN <<Emit("recieveMessage", deliveries[d].receiverSocketId, deliveries[d].msgId, d)>>
     ELSE <<>>)
    \o
    (IF deliveries[d].senderSocketId # NoSocket
     THEN <<Emit("recieveMessage", deliveries[d].senderSocketId, deliveries[d].msgId, d)>>
     ELSE <<>>)

\* Message.findById(...).populate(...) resolves: the emits run
sendMessagePopulated(d) ==
    /\ deliveries[d].kind = "direct"
    /\ deliveries[d].pc = "findById"
    /\ emitted' = emitted \o DirectEmits(d)
    /\ deliveries' = [deliveries EXCEPT ![d].pc = "done"]
    /\ UNCHANGED <<sockets, userSocketMap, messages, channels, boundThroughout, provider>>

\* sendMessageCatch with the emits moved in front of the awaits
sendMessageCatchAfterEmits(d) ==
    /\ deliveries[d].kind = "direct"
    /\ deliveries[d].pc \in {"create", "findById"}
    /\ emitted' = emitted \o DirectEmits(d)
    /\ deliveries' = [deliveries EXCEPT ![d].pc = "failed"]
    /\ UNCHANGED <<sockets, userSocketMap, messages, channels, boundThroughout, provider>>

\* sendMessageCatch with a catch block that blanks the record the handler had created
sendMessageCatchRollsBack(d) ==
    /\ deliveries[d].kind = "direct"
    /\ deliveries[d].pc \in {"create", "findById"}
    /\ deliveries' = [deliveries EXCEPT ![d].pc = "failed"]
    /\ messages' = IF deliveries[d].msgId # NoMessage
                   THEN [messages EXCEPT ![deliveries[d].msgId] =
                            [sender |-> NoUser, receiver |-> NoUser]]
                   ELSE messages
    /\ UNCHANGED <<sockets, userSocketMap, channels, emitted, boundThroughout, provider>>

\* an awaited persistence call of sendMessage rejects: catch, console.log only
sendMessageCatch(d) ==
    /\ deliveries[d].kind = "direct"
    /\ deliveries[d].pc \in {"create", "findById"}
    /\ deliveries' = [deliveries EXCEPT ![d].pc = "failed"]
    /\ UNCHANGED <<sockets, userSocketMap, messages, channels, emitted, boundThroughout, provider>>

\* --------------------------------------------------------- channel delivery
\* socket.on("sendMessageOnChannel"): Message.create is awaited at once
sendMessageOnChannel(h, sender, c) ==
    /\ IsConnected(h)
    /\ Len(deliveries) < MaxDeliveries
    /\ deliveries' = Append(deliveries,
           [kind |-> "channel", conn |-> h, sender |-> sender, receiver |-> NoUser,
            channel |-> c,
            senderSocketId |-> NoSocket, receiverSocketId |-> NoSocket,
            pc |-> "create", msgId |-> NoMessage])
    /\ boundThroughout' = Append(boundThroughout, userSocketMap[sender] # NoSocket)
    /\ UNCHANGED <<sockets, userSocketMap, messages, channels, emitted, provider>>

\* Message.create(message) resolves; the schema has no channel field, so the
\* record keeps the sender only; findById is awaited
channelMessageCreated(d) ==
    /\ deliveries[d].kind = "channel"
    /\ deliveries[d].pc = "create"
    /\ messages' = Append(messages, [sender |-> deliveries[d].sender, receiver |-> NoUser])
    /\ deliveries' = [deliveries EXCEPT ![d].pc = "findById",
                                        ![d].msgId = Len(messages) + 1]
    /\ UNCHANGED <<sockets, userSocketMap, channels, emitted, boundThroughout, provider>>

\* Message.findById(...).populate("sender").exec() resolves; findByIdAndUpdate is awaited
channelMessagePopulated(d) ==
    /\ deliveries[d].kind = "channel"
    /\ deliveries[d].pc = "findById"
    /\ deliveries' = [deliveries EXCEPT ![d].pc = "update"]
    /\ UNCHANGED <<sockets, userSocketMap, messages, channels, emitted, boundThroughout, provider>>

\* PushMessage written as a plain assignment of the field: earlier appends are lost
PushMessageOverwrites(doc, id) == [doc EXCEPT !.messages = <<id>>]

\* PushMessage with the $push left out
PushMessageSkipped(doc, id) == doc

\* the update {$push : {messages : id}} applied to one channel document
PushMessage(doc, id) == [doc EXCEPT !.messages = Append(@, id)]

\* Channel.findByIdAndUpdate resolves: one atomic $push on the document if it
\* exists, null and no write if it does not; Channel.findById is awaited
channelUpdated(d) ==
    /\ deliveries[d].kind = "channel"
    /\ deliveries[d].pc = "update"
    /\ channels' = IF channels[deliveries[d].channel].exists
                   THEN [channels EXCEPT ![deliveries[d].channel] =
                            PushMessage(@, deliveries[d].msgId)]
                   ELSE channels
    /\ deliveries' = [deliveries EXCEPT ![d].pc = "fetch"]
    /\ UNCHANGED <<sockets, userSocketMap, messages, emitted, boundThroughout, provider>>

\* one forEach of the broadcast: an emit for every id of the list found in the map
FanOut(ids, msg, d) ==
    LET all == [i \in 1..Len(ids) |->
                   Emit("recieveChannelMessage", userSocketMap[ids[i]], msg, d)]
    IN  SelectSeq(all, LAMBDA e : e.to # NoSocket)

\* ChannelEmits without the forEach over channel.admin
ChannelEmitsMembersOnly(d) ==
    FanOut(channels[deliveries[d].channel].members, deliveries[d].msgId, d)

\* ChannelEmits followed by a confirmation to the sender, as sendMessage gives one
ChannelEmitsEchoSender(d) ==
    LET doc == channels[deliveries[d].channel]
    IN  FanOut(doc.members, deliveries[d].msgId, d) \o FanOut(doc.admin, deliveries[d].msgId, d)
        \o FanOut(<<deliveries[d].sender>>, deliveries[d].msgId, d)

\* ChannelEmits skipping the admins that the members loop has already served
ChannelEmitsDeduplicated(d) ==
    LET doc == channels[deliveries[d].channel]
        rest == SelectSeq(doc.admin, LAMBDA a : a \notin Range(doc.members))
    IN  FanOut(doc.members, deliveries[d].msgId, d) \o FanOut(rest, deliveries[d].msgId, d)

\* the emits of sendMessageOnChannel: channel.members first, then channel.admin
ChannelEmits(d) ==
    LET doc == channels[deliveries[d].channel]
    IN  FanOut(doc.members, deliveries[d].msgId, d) \o FanOut(doc.admin, deliveries[d].msgId, d)

\* channelFetched with a handler that, given null, waits for the channel to appear
channelFetchedWaitsForChannel(d) ==
    /\ deliveries[d].kind = "channel"
    /\ deliveries[d].pc = "fetch"
    /\ IF channels[deliveries[d].channel].exists
       THEN /\ emitted' = emitted \o ChannelEmits(d)
            /\ deliveries' = [deliveries EXCEPT ![d].pc = "done"]
       ELSE /\ emitted' = emitted
            /\ deliveries' = [deliveries EXCEPT ![d].pc = "wait"]
    /\ UNCHANGED <<sockets, userSocketMap, messages, channels, boundThroughout, provider>>

\* Channel.findById(...).populate(...) resolves: with a document the broadcast
\* runs; with null, channel._id throws and the catch block ends the handler
channelFetched(d) ==
    /\ deliveries[d].kind = "channel"
    /\ deliveries[d].pc = "fetch"
    /\ IF channels[deliveries[d].channel].exists
       THEN /\ emitted' = emitted \o ChannelEmits(d)
            /\ deliveries' = [deliveries EXCEPT ![d].pc = "done"]
       ELSE /\ emitted' = emitted
            /\ deliveries' = [deliveries EXCEPT ![d].pc = "failed"]
    /\ UNCHANGED <<sockets, userSocketMap, messages, channels, boundThroughout, provider>>

\* sendMessageOnChannelCatch with a catch block that drops the sender's map entry
sendMessageOnChannelCatchUnbinds(d) ==
    /\ deliveries[d].kind = "channel"
    /\ deliveries[d].pc \in {"create", "findById", "update", "fetch"}
    /\ deliveries' = [deliveries EXCEPT ![d].pc = "failed"]
    /\ userSocketMap' = [userSocketMap EXCEPT ![deliveries[d].sender] = NoSocket]
    /\ UNCHANGED <<sockets, messages, channels, emitted, boundThroughout, provider>>

\* an awaited persistence call of sendMessageOnChannel rejects: catch, console.log only
sendMessageOnChannelCatch(d) ==
    /\ deliveries[d].kind = "channel"
    /\ deliveries[d].pc \in {"create", "findById", "update", "fetch"}
    /\ deliveries' = [deliveries EXCEPT ![d].pc = "failed"]
    /\ UNCHANGED <<sockets, userSocketMap, messages, channels, emitted, boundThroughout, provider>>

\* ----------------------------------------------------------- history fetch
\* getMessages(user1, user2): the ids of the records between the two users, oldest first
getMessages(user1, user2) ==
    SelectSeq([i \in 1..Len(messages) |-> i],
              LAMBDA i : \/ messages[i].sender = user1 /\ messages[i].receiver = user2
                         \/ messages[i].sender = user2 /\ messages[i].receiver = user1)

\* getChannelMessages(channelId): the populated message list of the channel document
getChannelMessages(c) ==
    SelectSeq(channels[c].messages, LAMBDA i : i \in MessageIds)

\* ------------------------------------------------------------ specification
\* what the clients of a run send.  SocketProvider opens its socket with
\* userId = userInfo._id; a payload with sender s is submitted on a socket whose
\* handshake named s.  The handlers themselves never look at the submitting socket.
ConnectIds == {"u1", "u2", NoUser}
DirectPayloads == {<<"u1", "u2">>}
ChannelSenders == {"u1"}

\* a channel payload names a channel that exists or an id that no channel has
PayloadChannels == {c \in ChannelIds : channels[c].exists \/ c \notin CreatableIds}

Connections == \E u \in ConnectIds : Connection(u)

Disconnects == \E h \in SocketIds : disconnect(h)

ChannelCreations ==
    \E c \in CreatableIds, creator \in ChannelCreators, members \in ChannelMemberLists :
        CreateChannel(c, creator, members)

DirectSubmissions ==
    \E h \in SocketIds, p \in DirectPayloads :
        sockets[h].userId = p[1] /\ sendMessage(h, p[1], p[2])

ChannelSubmissions ==
    \E h \in SocketIds, s \in ChannelSenders, c \in PayloadChannels :
        sockets[h].userId = s /\ sendMessageOnChannel(h, s, c)

\* both delivery handlers
Next ==
    \/ Connections
    \/ Disconnects
    \/ ChannelCreations
    \/ DirectSubmissions
    \/ \E d \in DeliveryIds : sendMessageCreated(d)
    \/ \E d \in DeliveryIds : sendMessagePopulated(d)
    \/ \E d \in DeliveryIds : sendMessageCatch(d)
    \/ ChannelSubmissions
    \/ \E d \in DeliveryIds : channelMessageCreated(d)
    \/ \E d \in DeliveryIds : channelMessagePopulated(d)
    \/ \E d \in DeliveryIds : channelUpdated(d)
    \/ \E d \in DeliveryIds : channelFetched(d)
    \/ \E d \in DeliveryIds : sendMessageOnChannelCatch(d)

Spec == Init /\ [][Next]_vars

\* direct deliveries only
NextDirect ==
    \/ Connections
    \/ Disconnects
    \/ DirectSubmissions
    \/ \E d \in DeliveryIds : sendMessageCreated(d)
    \/ \E d \in DeliveryIds : sendMessagePopulated(d)
    \/ \E d \in DeliveryIds : sendMessageCatch(d)

SpecDirect == Init /\ [][NextDirect]_vars

\* direct deliveries of a payload whose sender and recipient are the same user
SelfPayloads == {<<"u1", "u1">>}

SelfSubmissions ==
    \E h \in SocketIds, p \in SelfPayloads :
        sockets[h].userId = p[1] /\ sendMessage(h, p[1], p[2])

NextSelf ==
    \/ Connections
    \/ Disconnects
    \/ SelfSubmissions
    \/ \E d \in DeliveryIds : sendMessageCreated(d)
    \/ \E d \in DeliveryIds : sendMessagePopulated(d)
    \/ \E d \in DeliveryIds : sendMessageCatch(d)

SpecSelf == Init /\ [][NextSelf]_vars

\* channel deliveries by two senders, to a channel both belong to or to a
\* channel the second sender is neither member nor admin of
TwoSenders == {"u1", "u2"}
TwoSenderMemberLists == {<<"u1", "u2">>, <<"u3">>}

TwoSenderCreations ==
    \E c \in CreatableIds, creator \in ChannelCreators, members \in TwoSenderMemberLists :
        CreateChannel(c, creator, members)

TwoSenderSubmissions ==
    \E h \in SocketIds, s \in TwoSenders, c \in CreatableIds :
        sockets[h].userId = s /\ channels[c].exists /\ sendMessageOnChannel(h, s, c)

NextTwoSenders ==
    \/ Connections
    \/ Disconnects
    \/ TwoSenderCreations
    \/ TwoSenderSubmissions
    \/ \E d \in DeliveryIds : channelMessageCreated(d)
    \/ \E d \in DeliveryIds : channelMessagePopulated(d)
    \/ \E d \in DeliveryIds : channelUpdated(d)
    \/ \E d \in DeliveryIds : channelFetched(d)
    \/ \E d \in DeliveryIds : sendMessageOnChannelCatch(d)

SpecTwoSenders == Init /\ [][NextTwoSenders]_vars

\* both handlers with the connections of one user, every awaited persistence
\* call settling in the end: the continuation of an await runs once its
\* promise has resolved or rejected
LiveConnectIds == {"u1"}

LiveConnections == \E u \in LiveConnectIds : Connection(u)

LiveMemberLists == {<<"u1", "u2">>}

LiveChannelCreations ==
    \E c \in CreatableIds, creator \in ChannelCreators, members \in LiveMemberLists :
        CreateChannel(c, creator, members)

DeliveryStep(d) ==
    /\ d \in DeliveryIds
    /\ \/ sendMessageCreated(d)
       \/ sendMessagePopulated(d)
       \/ sendMessageCatch(d)
       \/ channelMessageCreated(d)
       \/ channelMessagePopulated(d)
       \/ channelUpdated(d)
       \/ channelFetched(d)
       \/ sendMessageOnChannelCatch(d)

NextLive ==
    \/ LiveConnections
    \/ Disconnects
    \/ LiveChannelCreations
    \/ DirectSubmissions
    \/ ChannelSubmissions
    \/ \E d \in 1..MaxDeliveries : DeliveryStep(d)

SpecLive ==
    /\ Init
    /\ [][NextLive]_vars
    /\ \A d \in 1..MaxDeliveries : WF_vars(DeliveryStep(d))

\* direct deliveries while every user, also one the payload does not name, and
\* unidentified clients connect
AllConnectIds == Users \cup {NoUser}

AllConnections == \E u \in AllConnectIds : Connection(u)

NextThird ==
    \/ AllConnections
    \/ Disconnects
    \/ DirectSubmissions
    \/ \E d \in DeliveryIds : sendMessageCreated(d)
    \/ \E d \in DeliveryIds : sendMessagePopulated(d)
    \/ \E d \in DeliveryIds : sendMessageCatch(d)

SpecThird == Init /\ [][NextThird]_vars

\* both handlers called from sockets that did not name the payload's sender:
\* the handlers are registered on every socket and never look at the socket
\* a payload arrives on
ForgerConnectIds == {"u2", NoUser}

ForgerConnections == \E u \in ForgerConnectIds : Connection(u)

ForgedDirectSubmissions ==
    \E h \in SocketIds, p \in DirectPayloads :
        sockets[h].userId # p[1] /\ sendMessage(h, p[1], p[2])

ForgedChannelSubmissions ==
    \E h \in SocketIds, s \in ChannelSenders, c \in PayloadChannels :
        sockets[h].userId # s /\ sendMessageOnChannel(h, s, c)

NextForged ==
    \/ ForgerConnections
    \/ Disconnects
    \/ LiveChannelCreations
    \/ ForgedDirectSubmissions
    \/ ForgedChannelSubmissions
    \/ \E d \in DeliveryIds : sendMessageCreated(d)
    \/ \E d \in DeliveryIds : sendMessagePopulated(d)
    \/ \E d \in DeliveryIds : sendMessageCatch(d)
    \/ \E d \in DeliveryIds : channelMessageCreated(d)
    \/ \E d \in DeliveryIds : channelMessagePopulated(d)
    \/ \E d \in DeliveryIds : channelUpdated(d)
    \/ \E d \in DeliveryIds : channelFetched(d)
    \/ \E d \in DeliveryIds : sendMessageOnChannelCatch(d)

SpecForged == Init /\ [][NextForged]_vars

\* direct deliveries in both directions between two users
BothWaysPayloads == {<<"u1", "u2">>, <<"u2", "u1">>}

BothWaysSubmissions ==
    \E h \in SocketIds, p \in BothWaysPayloads :
        sockets[h].userId = p[1] /\ sendMessage(h, p[1], p[2])

NextBothWays ==
    \/ Connections
    \/ Disconnects
    \/ BothWaysSubmissions
    \/ \E d \in DeliveryIds : sendMessageCreated(d)
    \/ \E d \in DeliveryIds : sendMessagePopulated(d)
    \/ \E d \in DeliveryIds : sendMessageCatch(d)

SpecBothWays == Init /\ [][NextBothWays]_vars

\* channel deliveries only
NextChannel ==
    \/ Connections
    \/ Disconnects
    \/ ChannelCreations
    \/ ChannelSubmissions
    \/ \E d \in DeliveryIds : channelMessageCreated(d)
    \/ \E d \in DeliveryIds : channelMessagePopulated(d)
    \/ \E d \in DeliveryIds : channelUpdated(d)
    \/ \E d \in DeliveryIds : channelFetched(d)
    \/ \E d \in DeliveryIds : sendMessageOnChannelCatch(d)

SpecChannel == Init /\ [][NextChannel]_vars

\* ------------------------------------------------- what a delivery produced
\* positions in the emit log that belong to invocation d
EmitsOf(d) == {i \in 1..Len(emitted) : emitted[i].d = d}

\* emits of invocation d addressed to socket h, and those that reached it
EmitsTo(d, h) == {i \in EmitsOf(d) : emitted[i].to = h}
PushesTo(d, h) == {i \in EmitsTo(d, h) : emitted[i].live}

\* pushes of invocation d received on any socket opened for userId u
PushesToUser(d, u) ==
    {i \in EmitsOf(d) : emitted[i].live /\ sockets[emitted[i].to].userId = u}

\* the step in which invocation d runs its emits and returns
Finishing(d) == deliveries[d].pc # "done" /\ deliveries'[d].pc = "done"

\* the identities invocation d is meant to reach
Recipients(d) ==
    IF deliveries[d].kind = "direct"
    THEN {deliveries[d].sender, deliveries[d].receiver}
    ELSE Range(channels[deliveries[d].channel].members)
         \cup Range(channels[deliveries[d].channel].admin)

\* u is listed in one of channel.members and channel.admin and not in the other
InExactlyOne(u, doc) == (u \in Range(doc.members)) # (u \in Range(doc.admin))

\* Message.create resolved for invocation d
Created(d) == deliveries[d].msgId # NoMessage

\* --------------------------------------------------------------------- C1
\* C1: in both handlers, every intended recipient identity that is in the map
\* at the moment the pushes are emitted receives the message on the socket it
\* is mapped to at that moment, whatever connects or disconnects happened
\* while the message was being persisted.
C1_BoundRecipientsReceive ==
    [][\A d \in DeliveryIds :
          Finishing(d) =>
             \A u \in Recipients(d) :
                userSocketMap[u] # NoSocket => PushesTo(d, userSocketMap[u])' # {}]_vars

\* --------------------------------------------------------------------- C2
\* C2: when distinct identities A and B both stay in the map from the
\* submission of A's sendMessage until the delivery finishes, and persistence
\* succeeds, A and B each receive exactly one push for the message, both
\* carrying the same message id.
C2_BothReceiveExactlyOnce ==
    [][\A d \in DeliveryIds :
          ( /\ Finishing(d)
            /\ deliveries[d].kind = "direct"
            /\ deliveries[d].sender # deliveries[d].receiver
            /\ boundThroughout[d] )
          => /\ Cardinality(PushesToUser(d, deliveries[d].sender)') = 1
             /\ Cardinality(PushesToUser(d, deliveries[d].receiver)') = 1
             /\ \A i \in EmitsOf(d)' : emitted'[i].msg = deliveries'[d].msgId]_vars

\* --------------------------------------------------------------------- C3
\* C3: if receiver B is not in the map when a direct message from A is
\* delivered, B receives no push for it, A receives its push if A is in the
\* map, and getMessages for the A-B conversation returns the message.
C3_UnboundReceiver ==
    [][\A d \in DeliveryIds :
          ( /\ Finishing(d)
            /\ deliveries[d].kind = "direct"
            /\ userSocketMap[deliveries[d].receiver] = NoSocket )
          => /\ PushesToUser(d, deliveries[d].receiver)' = {}
             /\ userSocketMap[deliveries[d].sender] # NoSocket
                   => PushesToUser(d, deliveries[d].sender)' # {}
             /\ deliveries'[d].msgId \in
                   Range(getMessages(deliveries[d].sender, deliveries[d].receiver)')]_vars

\* --------------------------------------------------------------------- C4
\* C4: on every successful sendMessageOnChannel, each identity that is in
\* exactly one of the channel's members and admin lists and is in the map at
\* push time gets exactly one recieveChannelMessage push on its mapped
\* socket, and each member or admin that is not in the map gets none, while
\* the others still get theirs.
C4_ChannelFanOut ==
    [][\A d \in DeliveryIds :
          (Finishing(d) /\ deliveries[d].kind = "channel")
          => LET doc == channels[deliveries[d].channel]
             IN  \A u \in Range(doc.members) \cup Range(doc.admin) :
                    IF userSocketMap[u] = NoSocket
                    THEN PushesToUser(d, u)' = {}
                    ELSE InExactlyOne(u, doc)
                         => /\ Cardinality(EmitsTo(d, userSocketMap[u])') = 1
                            /\ Cardinality(PushesTo(d, userSocketMap[u])') = 1
                            /\ PushesToUser(d, u)' = PushesTo(d, userSocketMap[u])'
                            /\ \A i \in PushesTo(d, userSocketMap[u])' :
                                  /\ emitted'[i].event = "recieveChannelMessage"
                                  /\ emitted'[i].msg = deliveries'[d].msgId]_vars

\* a finished channel delivery that reached a member or admin listed once and
\* skipped another one that was offline
C4_Witness ==
    \E d \in DeliveryIds :
       /\ deliveries[d].kind = "channel"
       /\ deliveries[d].pc = "done"
       /\ LET doc == channels[deliveries[d].channel]
          IN  /\ \E u \in Range(doc.members) \cup Range(doc.admin) :
                    InExactlyOne(u, doc) /\ Cardinality(PushesToUser(d, u)) = 1
              /\ \E v \in Range(doc.members) \cup Range(doc.admin) :
                    PushesToUser(d, v) = {} /\ userSocketMap[v] = NoSocket

\* --------------------------------------------------------------------- C5
\* C5: each successful sendMessageOnChannel to an existing channel creates
\* exactly one message record and its id is in the channel's message list
\* exactly once, however many channel deliveries to the channel run at once.
C5_PersistedAndAppendedOnce ==
    /\ \A d \in DeliveryIds : Created(d) => deliveries[d].msgId \in MessageIds
    /\ \A d1, d2 \in DeliveryIds :
          (Created(d1) /\ Created(d2) /\ d1 # d2) => deliveries[d1].msgId # deliveries[d2].msgId
    /\ Len(messages) = Cardinality({d \in DeliveryIds : Created(d)})
    /\ \A d \in DeliveryIds :
          (deliveries[d].kind = "channel" /\ deliveries[d].pc = "done")
          => Count(channels[deliveries[d].channel].messages, deliveries[d].msgId) = 1

\* two channel deliveries to one channel overlapped (the later record was
\* appended first) and both finished
C5_Witness ==
    \E d1, d2 \in DeliveryIds :
       /\ deliveries[d1].kind = "channel" /\ deliveries[d1].pc = "done"
       /\ deliveries[d2].kind = "channel" /\ deliveries[d2].pc = "done"
       /\ deliveries[d1].channel = deliveries[d2].channel
       /\ deliveries[d1].msgId < deliveries[d2].msgId
       /\ channels[deliveries[d1].channel].messages
             = <<deliveries[d2].msgId, deliveries[d1].msgId>>

\* --------------------------------------------------------------------- C6
\* C6: when a persistence step of sendMessage or sendMessageOnChannel fails
\* (create, populated re-read, channel append, channel fetch), no push event
\* is emitted for that message to any socket.
C6_NoPushAfterFailure ==
    \A d \in DeliveryIds : deliveries[d].pc = "failed" => EmitsOf(d) = {}

\* a direct and a channel delivery both failed after their record was created,
\* with a recipient of each online
C6_Witness ==
    \E d1, d2 \in DeliveryIds :
       /\ deliveries[d1].kind = "direct" /\ deliveries[d1].pc = "failed" /\ Created(d1)
       /\ deliveries[d1].receiverSocketId # NoSocket
       /\ deliveries[d2].kind = "channel" /\ deliveries[d2].pc = "failed" /\ Created(d2)
       /\ channels[deliveries[d2].channel].exists
       /\ \E u \in Recipients(d2) : userSocketMap[u] # NoSocket

\* --------------------------------------------------------------------- C7
\* C7: when persistence fails during sendMessage or sendMessageOnChannel, the
\* connection that submitted the message is sent an error outcome for it.
C7_FailureReported ==
    \A d \in DeliveryIds :
       deliveries[d].pc = "failed" => EmitsTo(d, deliveries[d].conn) # {}

\* --------------------------------------------------------------------- C8
\* C8: after a delivery attempt in which a persistence step failed, no record
\* of the message is returned by a direct-conversation history fetch or a
\* channel history fetch.
C8_NoRecordAfterFailure ==
    \A d \in DeliveryIds :
       (deliveries[d].pc = "failed" /\ Created(d))
       => /\ \A u1, u2 \in Users : deliveries[d].msgId \notin Range(getMessages(u1, u2))
          /\ \A c \in ChannelIds : deliveries[d].msgId \notin Range(getChannelMessages(c))

\* --------------------------------------------------------------------- C9
\* C9: every push event of a message happens after the message's record was
\* persisted, and for a channel message also after its id was appended to the
\* channel's message list.
C9_PersistedBeforePush ==
    \A i \in 1..Len(emitted) :
       /\ emitted[i].msg \in MessageIds
       /\ emitted[i].msg = deliveries[emitted[i].d].msgId
       /\ messages[emitted[i].msg].sender = deliveries[emitted[i].d].sender
       /\ emitted[i].event = "recieveChannelMessage"
             => emitted[i].msg \in Range(channels[deliveries[emitted[i].d].channel].messages)

\* a direct push and a channel push have both happened
C9_Witness ==
    /\ \E i \in 1..Len(emitted) : emitted[i].event = "recieveMessage" /\ emitted[i].live
    /\ \E i \in 1..Len(emitted) : emitted[i].event = "recieveChannelMessage" /\ emitted[i].live

\* -------------------------------------------------------------------- C10
\* C10: once the disconnect of a connection has been processed, no push is
\* attempted to its socket again, not even by a delivery that was awaiting
\* persistence when the connection closed.
C10_NoPushToClosedSocket ==
    \A i \in 1..Len(emitted) : emitted[i].live

\* ------------------------------------------------------ directory helpers
\* the socket a later connection with the same userId has taken the entry from
Superseded(h) ==
    /\ sockets[h].userId # NoUser
    /\ \E h2 \in SocketIds : h2 > h /\ sockets[h2].userId = sockets[h].userId

\* -------------------------------------------------------------------- C11
\* C11: in every reachable state every map entry userId -> socketId refers to
\* a socket that is currently open and that named exactly that userId in its
\* handshake; no entry remains for a socket whose disconnect was processed.
C11_EntriesReferToOpenSockets ==
    \A u \in Users :
       userSocketMap[u] # NoSocket
       => /\ IsConnected(userSocketMap[u])
          /\ sockets[userSocketMap[u]].userId = u

\* the disconnect of one identified socket was processed while another
\* identity is still in the map
C11_Witness ==
    /\ \E h \in SocketIds :
          /\ ~sockets[h].connected /\ sockets[h].userId # NoUser
          /\ userSocketMap[sockets[h].userId] = NoSocket
    /\ \E u \in Users : userSocketMap[u] # NoSocket

C13_UnmatchedDisconnectIsNoOp ==
    \A h \in SocketIds :
       /\ (sockets[h].userId = NoUser \/ Superseded(h) \/ ~sockets[h].connected)
          => UnbindResults(userSocketMap, h) = {userSocketMap}
       /\ \A m \in UnbindResults(userSocketMap, h) : UnbindResults(m, h) = {m}

\* the disconnects of an unidentified socket and of a superseded socket were
\* processed and the map still holds the entry of the superseding socket
C13_Witness ==
    /\ \E h \in SocketIds : ~sockets[h].connected /\ sockets[h].userId = NoUser
    /\ \E h \in SocketIds :
          /\ ~sockets[h].connected /\ Superseded(h)
          /\ userSocketMap[sockets[h].userId] > h

\* -------------------------------------------------------------------- C14
\* C14: when one identity drops connection h1 and opens h2, the map ends with
\* userId -> h2 whichever of disconnect(h1) and the connection of h2 the
\* server runs first: in every reachable state the newest socket that named a
\* userId holds that userId's entry for as long as it is open, whatever older
\* sockets of the userId were closed before or after it connected.
C14_NewestOpenSocketHoldsEntry ==
    \A h \in SocketIds :
       (sockets[h].connected /\ sockets[h].userId # NoUser /\ ~Superseded(h))
       => userSocketMap[sockets[h].userId] = h

\* h1 is closed, the newer h2 of the same userId is open and holds the entry
C14_Witness ==
    \E h1, h2 \in SocketIds :
       /\ h1 < h2
       /\ sockets[h2].userId # NoUser
       /\ sockets[h1].userId = sockets[h2].userId
       /\ ~sockets[h1].connected /\ sockets[h2].connected
       /\ ~Superseded(h2)
       /\ userSocketMap[sockets[h2].userId] = h2

\* -------------------------------------------------------------------- C15
\* C15: every direct message that is stored or pushed references two distinct
\* identities: in every reachable state each stored record with a recipient
\* has sender # recipient, and so has the record of every recieveMessage
\* event emitted, whatever payload sendMessage was given.
C15_DirectMessageHasTwoParties ==
    /\ \A i \in MessageIds :
          messages[i].receiver # NoUser => messages[i].sender # messages[i].receiver
    /\ \A i \in 1..Len(emitted) :
          emitted[i].event = "recieveMessage"
          => messages[emitted[i].msg].sender # messages[emitted[i].msg].receiver

\* -------------------------------------------------------------------- C16
\* C16: every stored message that was submitted through sendMessageOnChannel
\* belongs to an existing channel: its id is in the messages list of a channel
\* that exists, for any channel id submitted. The record is created before the
\* $push, so the statement is taken for the handlers whose $push step has run.
C16_ChannelMessageBelongsToChannel ==
    \A d \in DeliveryIds :
       (deliveries[d].kind = "channel" /\ Created(d)
           /\ deliveries[d].pc \in {"fetch", "done"})
       => \E c \in ChannelIds :
             /\ channels[c].exists
             /\ deliveries[d].msgId \in Range(channels[c].messages)

\* -------------------------------------------------------------------- C17
\* C17: on every successful sendMessageOnChannel, an identity that is in both
\* the members and the admin list of the channel and is in the map at push
\* time gets exactly two recieveChannelMessage events of that message, both on
\* the socket the map holds for it.
C17_MemberAndAdminReceivesTwice ==
    [][\A d \in DeliveryIds :
          (Finishing(d) /\ deliveries[d].kind = "channel")
          => LET doc == channels[deliveries[d].channel]
             IN  \A u \in Range(doc.members) \cap Range(doc.admin) :
                    userSocketMap[u] # NoSocket
                    => /\ Cardinality(EmitsTo(d, userSocketMap[u])') = 2
                       /\ Cardinality(PushesTo(d, userSocketMap[u])') = 2
                       /\ PushesToUser(d, u)' = PushesTo(d, userSocketMap[u])'
                       /\ \A i \in PushesTo(d, userSocketMap[u])' :
                             /\ emitted'[i].event = "recieveChannelMessage"
                             /\ emitted'[i].msg = deliveries'[d].msgId]_vars

\* a finished channel delivery that pushed twice to the socket of an identity
\* listed as member and as admin
C17_Witness ==
    \E d \in DeliveryIds :
       /\ deliveries[d].kind = "channel"
       /\ deliveries[d].pc = "done"
       /\ LET doc == channels[deliveries[d].channel]
          IN  \E u \in Range(doc.members) \cap Range(doc.admin) :
                 \E h \in SocketIds :
                    sockets[h].userId = u /\ Cardinality(PushesTo(d, h)) = 2

\* -------------------------------------------------------------------- C18
\* C18: a connection that named no userId never gets a map entry and is never
\* the target of an emit, and the step that processes its disconnect leaves
\* the map unchanged.
C18_UnidentifiedConnectionStaysOutside ==
    [][\A h \in 1..Len(sockets') :
          sockets'[h].userId = NoUser
          => /\ \A u \in Users : userSocketMap'[u] # h
             /\ \A i \in 1..Len(emitted') : emitted'[i].to # h
             /\ (h \in SocketIds /\ sockets[h].connected /\ ~sockets'[h].connected)
                => userSocketMap' = userSocketMap]_vars

\* one unidentified socket was closed and another is open while the map holds
\* an entry and a delivery has pushed its message
C18_Witness ==
    /\ \E h \in SocketIds : sockets[h].userId = NoUser /\ ~sockets[h].connected
    /\ \E h \in SocketIds : sockets[h].userId = NoUser /\ sockets[h].connected
    /\ \E u \in Users : userSocketMap[u] # NoSocket
    /\ \E d \in DeliveryIds, h \in SocketIds :
          deliveries[d].pc = "done" /\ PushesTo(d, h) # {}

\* -------------------------------------------------------------------- C19
\* C19: the map is changed only by the connection handler and by disconnect:
\* a step that changes the map adds or closes a socket and touches no
\* delivery, and every step of sendMessage and of sendMessageOnChannel (the
\* submission, each persistence step, the emits, the catch block) leaves the
\* map as it was.
C19_OnlyConnectAndDisconnectChangeMap ==
    [][/\ userSocketMap' # userSocketMap
          => /\ sockets' # sockets
             /\ deliveries' = deliveries /\ emitted' = emitted /\ messages' = messages
       /\ (deliveries' # deliveries \/ emitted' # emitted \/ messages' # messages
              \/ channels' # channels)
          => userSocketMap' = userSocketMap]_vars

\* with an entry in the map, one direct delivery has finished with a push and
\* one channel delivery has ended in its catch block
C19_Witness ==
    /\ \E u \in Users : userSocketMap[u] # NoSocket
    /\ \E d \in DeliveryIds :
          deliveries[d].kind = "direct" /\ deliveries[d].pc = "done" /\ EmitsOf(d) # {}
    /\ \E d \in DeliveryIds :
          deliveries[d].kind = "channel" /\ deliveries[d].pc = "failed"

C21_PushOrderIsCreateOrder ==
    \A i, j \in 1..Len(emitted) :
       LET d1 == emitted[i].d
           d2 == emitted[j].d
       IN  (/\ emitted[i].live /\ emitted[j].live
            /\ emitted[i].to = emitted[j].to
            /\ deliveries[d1].kind = "channel" /\ deliveries[d2].kind = "channel"
            /\ deliveries[d1].channel = deliveries[d2].channel
            /\ deliveries[d1].sender # deliveries[d2].sender
            /\ emitted[i].msg < emitted[j].msg)
           => i < j

\* -------------------------------------------------------------------- C22
\* C22: every submitted invocation of sendMessage or sendMessageOnChannel
\* eventually ends, either after its emits (done) or in its catch block
\* (failed), provided every awaited persistence call settles; and while it is
\* pending its next step is enabled whatever connections, disconnects and
\* other invocations have done: it waits for nothing but its own await.
C22_EveryDeliveryEnds ==
    \A d \in 1..MaxDeliveries :
       /\ []((d \in DeliveryIds /\ InFlight(d)) => ENABLED DeliveryStep(d))
       /\ (d \in DeliveryIds) ~> (d \in DeliveryIds /\ ~InFlight(d))

\* one invocation has ended after its emits and another in its catch block
C22_Witness ==
    /\ \E d \in DeliveryIds : deliveries[d].pc = "done" /\ EmitsOf(d) # {}
    /\ \E d \in DeliveryIds : deliveries[d].pc = "failed"

\* -------------------------------------------------------------------- C23
\* C23: a socket only moves forward: the userId it named at connect never
\* changes, a closed socket never opens again, a map entry comes to hold a
\* socket only in the step that accepts that socket and only under the userId
\* it named, so a socket is bound at most once and never after it was closed.
C23_SocketMovesForwardOnly ==
    [][/\ Len(sockets') >= Len(sockets)
       /\ \A h \in SocketIds :
             /\ sockets'[h].userId = sockets[h].userId
             /\ ~sockets[h].connected => ~sockets'[h].connected
             /\ \A u \in Users : userSocketMap'[u] = h => userSocketMap[u] = h
       /\ \A h \in (1..Len(sockets')) \ SocketIds :
             /\ sockets'[h].connected
             /\ \A u \in Users : userSocketMap'[u] = h => u = sockets'[h].userId]_vars

\* a socket that was bound and then closed, and a later open socket of the
\* same userId that holds the entry now
C23_Witness ==
    \E h1, h2 \in SocketIds :
       /\ h1 < h2
       /\ sockets[h1].userId # NoUser
       /\ sockets[h1].userId = sockets[h2].userId
       /\ ~sockets[h1].connected /\ sockets[h2].connected
       /\ userSocketMap[sockets[h2].userId] = h2
       /\ \E h3 \in SocketIds : sockets[h3].userId = NoUser

\* -------------------------------------------------------------------- C24
\* C24: every emit of a direct message goes to a socket that named the
\* message's sender or its recipient as its userId: no socket of a third user
\* and no unidentified socket is the target of an emit for it, whatever
\* connections and disconnects happen while the handler runs.
C24_DirectPushOnlyToParties ==
    \A i \in 1..Len(emitted) :
       deliveries[emitted[i].d].kind = "direct"
       => /\ emitted[i].to \in SocketIds
          /\ sockets[emitted[i].to].userId \in
                {deliveries[emitted[i].d].sender, deliveries[emitted[i].d].receiver}

\* a direct delivery has pushed its message while a socket of a third user
\* and an unidentified socket were accepted before its emits
C24_Witness ==
    \E d \in DeliveryIds :
       /\ deliveries[d].kind = "direct" /\ deliveries[d].pc = "done"
       /\ \E h \in SocketIds : PushesTo(d, h) # {}
       /\ \E h3 \in SocketIds :
             /\ sockets[h3].userId \in Users \ {deliveries[d].sender, deliveries[d].receiver}
             /\ sockets[h3].connected
             /\ \E i \in EmitsOf(d) : emitted[i].to > h3
       /\ \E h0 \in SocketIds : sockets[h0].userId = NoUser /\ sockets[h0].connected

\* -------------------------------------------------------------------- C25
\* C25: every emit of a channel message goes to the socket the map holds, at
\* the time of the fan-out, for a user in the members or admin list of the
\* channel document fetched after the $push; a user in neither list, the
\* sender included, gets no push of it even when it is in the map.
C25_ChannelPushOnlyToMembersAndAdmins ==
    [][\A d \in DeliveryIds :
          (Finishing(d) /\ deliveries[d].kind = "channel")
          => /\ \A i \in EmitsOf(d)' :
                   LET h == emitted'[i].to
                   IN  /\ IsConnected(h)
                       /\ sockets[h].userId \in Recipients(d)
                       /\ userSocketMap[sockets[h].userId] = h
             /\ \A u \in Users \ Recipients(d) : PushesToUser(d, u)' = {}]_vars

\* a finished channel delivery that pushed to an admin while its sender, in
\* neither list and in the map, got nothing
C25_Witness ==
    \E d \in DeliveryIds :
       /\ deliveries[d].kind = "channel" /\ deliveries[d].pc = "done"
       /\ deliveries[d].sender \notin Recipients(d)
       /\ userSocketMap[deliveries[d].sender] # NoSocket
       /\ userSocketMap[deliveries[d].sender] = deliveries[d].conn
       /\ PushesToUser(d, deliveries[d].sender) = {}
       /\ \E h \in SocketIds : PushesTo(d, h) # {}

\* -------------------------------------------------------------------- C26
\* C26: a stored message record is created once and never changed or removed:
\* every step keeps every existing record as it is and adds at most one, an
\* invocation that has created its record keeps that record's id, and a
\* connection or disconnect step leaves the collection untouched. The history
\* fetches getMessages and getChannelMessages only read.
C26_RecordsAreNeverChanged ==
    [][/\ Len(messages') \in {Len(messages), Len(messages) + 1}
       /\ \A i \in MessageIds : messages'[i] = messages[i]
       /\ \A d \in DeliveryIds :
             Created(d) => deliveries'[d].msgId = deliveries[d].msgId
       /\ (sockets' # sockets \/ userSocketMap' # userSocketMap)
          => messages' = messages]_vars

\* two records exist, one of an invocation that finished and one of an
\* invocation that failed after its create, and a socket has been closed
C26_Witness ==
    /\ Len(messages) = 2
    /\ \E d \in DeliveryIds : deliveries[d].pc = "done" /\ Created(d)
    /\ \E d \in DeliveryIds : deliveries[d].pc = "failed" /\ Created(d)
    /\ \E h \in SocketIds : ~sockets[h].connected

C28_ChannelListIsChronological ==
    \A c \in ChannelIds :
       \A i, j \in 1..Len(channels[c].messages) :
          i < j => channels[c].messages[i] < channels[c].messages[j]

\* -------------------------------------------------------------------- C29
\* C29: the sender of every stored and of every pushed message is the userId
\* that the socket which submitted it named at connect: a socket of user X,
\* or an unidentified socket, cannot get a record with another sender stored
\* or pushed.
C29_SenderIsSubmittersIdentity ==
    /\ \A d \in DeliveryIds :
          Created(d)
          => messages[deliveries[d].msgId].sender = sockets[deliveries[d].conn].userId
    /\ \A i \in 1..Len(emitted) :
          messages[emitted[i].msg].sender = sockets[deliveries[emitted[i].d].conn].userId

\* -------------------------------------------------------------------- C30
\* C30: the messages list of a channel only holds records whose sender is a
\* member or an admin of that channel: sendMessageOnChannel with a sender in
\* neither list appends nothing and pushes nothing.
C30_OnlyMembersPostToChannel ==
    /\ \A c \in ChannelIds :
          \A i \in 1..Len(channels[c].messages) :
             messages[channels[c].messages[i]].sender
                \in Range(channels[c].members) \cup Range(channels[c].admin)
    /\ \A i \in 1..Len(emitted) :
          deliveries[emitted[i].d].kind = "channel"
          => deliveries[emitted[i].d].sender \in Recipients(emitted[i].d)

\* -------------------------------------------------------------------- C31
\* C31: per-sender FIFO: when one socket submits m1 and then m2 to the same
\* direct recipient or to the same channel, a socket that receives the push
\* of both receives m1's before m2's, however the persistence steps of the
\* two invocations interleave.
C31_PerSenderFifo ==
    \A i, j \in 1..Len(emitted) :
       LET d1 == emitted[i].d
           d2 == emitted[j].d
       IN  (/\ d1 < d2
            /\ deliveries[d1].conn = deliveries[d2].conn
            /\ deliveries[d1].kind = deliveries[d2].kind
            /\ deliveries[d1].receiver = deliveries[d2].receiver
            /\ deliveries[d1].channel = deliveries[d2].channel
            /\ emitted[i].live /\ emitted[j].live
            /\ emitted[i].to = emitted[j].to)
           => i < j

\* -------------------------------------------------------------------- C32
\* C32: the map is injective in every reachable state: no socket id is the
\* value of the entries of two userIds, so the loop of disconnect, which
\* stops at its first match, leaves no entry that holds the closing socket.
C32_MapIsInjective ==
    /\ \A u, v \in Users :
          (u # v /\ userSocketMap[u] # NoSocket) => userSocketMap[u] # userSocketMap[v]
    /\ \A h \in SocketIds :
          \A m \in UnbindResults(userSocketMap, h) : MatchingUsers(m, h) = {}

\* two userIds are in the map, each with a socket of its own, after the
\* socket of a third was closed and its entry deleted
C32_Witness ==
    /\ \E u, v \in Users :
          /\ u # v
          /\ userSocketMap[u] # NoSocket /\ userSocketMap[v] # NoSocket
    /\ \E h \in SocketIds :
          /\ ~sockets[h].connected /\ sockets[h].userId # NoUser
          /\ userSocketMap[sockets[h].userId] = NoSocket

\* ------------------------------------------------------------- the client
\* (SocketProvider and the chat slice of the store, for the client whose
\* socket the server knows as h)
Undefined == "undefined"

\* the chat the client has open: selectedChatType and selectedChatData._id
Chats ==
    {[type |-> Undefined, id |-> Undefined]}
    \cup {[type |-> "contact", id |-> u] : u \in Users}
    \cup {[type |-> "channel", id |-> c] : c \in ChannelIds}

\* the events socket h receives, in the order the server emitted them
EventsTo(h) == SelectSeq(emitted, LAMBDA e : e.to = h /\ e.live)

\* addMessage(message): the message is appended to selectedChatMessages
addMessage(list, id) == Append(list, id)

\* handleRecieveMessage / handleRecieveChannelMessage: the event's message is
\* added when a chat is open and it is the chat of the message
handleRecieve(list, chat, e) ==
    IF e.event = "recieveMessage"
    THEN IF chat.type # Undefined
            /\ (chat.id = messages[e.msg].sender \/ chat.id = messages[e.msg].receiver)
         THEN addMessage(list, e.msg)
         ELSE list
    ELSE IF chat.type # Undefined /\ chat.id = deliveries[e.d].channel
         THEN addMessage(list, e.msg)
         ELSE list

RECURSIVE handleAll(_, _, _)
handleAll(list, chat, events) ==
    IF events = <<>> THEN list
    ELSE handleAll(handleRecieve(list, chat, Head(events)), chat, Tail(events))

\* selectedChatMessages of the client on socket h that has had chat open
selectedChatMessages(h, chat) == handleAll(<<>>, chat, EventsTo(h))

\* -------------------------------------------------------------------- C33
\* C33: on the client, after any sequence of received events the open chat's
\* selectedChatMessages holds each message id at most once: the server never
\* makes one client append the same message twice.
C33_ClientListHasNoDuplicate ==
    \A h \in SocketIds, chat \in Chats :
       \A i, j \in 1..Len(selectedChatMessages(h, chat)) :
          i # j => selectedChatMessages(h, chat)[i] # selectedChatMessages(h, chat)[j]

\* --------------------------------------------- the client's contact list
\* obj.field in JavaScript: undefined when the object has no such property
Get(obj, field) == IF field \in DOMAIN obj THEN obj[field] ELSE Undefined

\* userInfo as the signup and login responses build it: the user's key is _id
UserInfoOf(u) == [_id |-> u]

\* the populated message of an emit: sender and receiver are user objects;
\* the message schema names the second party receiver
MessageData(id) ==
    [_id |-> id,
     sender |-> [_id |-> messages[id].sender],
     receiver |-> [_id |-> messages[id].receiver]]

\* the _id values of directMessagesContacts: every list without a repeated id
ContactLists ==
    {l \in UNION {[1..n -> Users] : n \in 0..Cardinality(Users)} :
        \A i, j \in 1..Len(l) : i # j => l[i] # l[j]}

\* dmContacts.splice(index, 1) followed by dmContacts.unshift(data)
MoveToTop(list, index) ==
    <<list[index]>> \o SubSeq(list, 1, index - 1) \o SubSeq(list, index + 1, Len(list))

\* dmContacts.findIndex(contact => contact._id === contactId); 0 stands for -1
FindIndex(list, contactId) ==
    IF \E i \in 1..Len(list) : list[i] = contactId
    THEN CHOOSE i \in 1..Len(list) :
            list[i] = contactId /\ \A j \in 1..(i - 1) : list[j] # contactId
    ELSE 0

\* addContactsInDMContacts without the findIndex test: the contact is always unshifted
addContactsInDMContactsAlwaysAdds(dmContacts, userInfo, message) ==
    LET userId == Get(userInfo, "id")
        fromMe == Get(message.sender, "_id") = userId
    IN  IF fromMe /\ Get(message, "recipient") = Undefined
        THEN dmContacts
        ELSE LET contactData == IF fromMe THEN Get(message, "recipient") ELSE message.sender
             IN  <<Get(contactData, "_id")>> \o dmContacts

\* addContactsInDMContacts(message) on the list dmContacts of the user whose
\* store holds userInfo; reading _id of an undefined message.recipient throws
\* and leaves the list as it was
addContactsInDMContacts(dmContacts, userInfo, message) ==
    LET userId == Get(userInfo, "id")
        fromMe == Get(message.sender, "_id") = userId
    IN  IF fromMe /\ Get(message, "recipient") = Undefined
        THEN dmContacts
        ELSE LET contactData == IF fromMe THEN Get(message, "recipient") ELSE message.sender
                 contactId == Get(contactData, "_id")
                 index == FindIndex(dmContacts, contactId)
             IN  IF index # 0
                 THEN MoveToTop(dmContacts, index)
                 ELSE <<contactId>> \o dmContacts

\* -------------------------------------------------------------------- C34
\* C34: on the client, for every recieveMessage event, the incoming message
\* of another user as well as the echo of the user's own message,
\* addContactsInDMContacts puts the other participant of the message at the
\* top of the contact list (the receiver when the current user is the sender,
\* the sender otherwise) and never the current user.
C34_OtherParticipantGoesOnTop ==
    \A h \in SocketIds :
       sockets[h].userId # NoUser
       => \A i \in 1..Len(EventsTo(h)), list \in ContactLists :
             LET me == sockets[h].userId
                 e == EventsTo(h)[i]
                 other == IF messages[e.msg].sender = me
                          THEN messages[e.msg].receiver ELSE messages[e.msg].sender
                 after == addContactsInDMContacts(list, UserInfoOf(me), MessageData(e.msg))
             IN  e.event = "recieveMessage"
                 => /\ after # <<>>
                    /\ Head(after) = other
                    /\ Head(after) # me

\* handleRecieveMessage calls addContactsInDMContacts for every recieveMessage
\* event: the contact list after the events, starting from list
RECURSIVE dmContactsAfter(_, _, _)
dmContactsAfter(list, userInfo, events) ==
    IF events = <<>> THEN list
    ELSE dmContactsAfter(
             addContactsInDMContacts(list, userInfo, MessageData(Head(events).msg)),
             userInfo, Tail(events))

DirectEventsTo(h) == SelectSeq(EventsTo(h), LAMBDA e : e.event = "recieveMessage")

\* -------------------------------------------------------------------- C35
\* C35: on the client, a contact list without two entries of the same contact
\* id has none after any sequence of addContactsInDMContacts calls, and a call
\* for a contact that is already listed moves that entry to the top instead
\* of adding a second one.
C35_ContactListStaysDuplicateFree ==
    \A h \in SocketIds :
       sockets[h].userId # NoUser
       => \A list \in ContactLists :
             LET userInfo == UserInfoOf(sockets[h].userId)
                 events == DirectEventsTo(h)
                 after == dmContactsAfter(list, userInfo, events)
             IN  /\ \A i, j \in 1..Len(after) : i # j => after[i] # after[j]
                 /\ events # <<>>
                    => LET before == dmContactsAfter(list, userInfo,
                                                     SubSeq(events, 1, Len(events) - 1))
                           index == FindIndex(before, Head(after))
                       IN  IF index # 0
                           THEN after = MoveToTop(before, index)
                           ELSE after = <<Head(after)>> \o before

\* a client has received recieveMessage events of two different senders
C35_Witness ==
    \E h \in SocketIds :
       /\ sockets[h].userId # NoUser
       /\ \E i, j \in 1..Len(DirectEventsTo(h)) :
             /\ i < j
             /\ messages[DirectEventsTo(h)[i].msg].sender
                   # messages[DirectEventsTo(h)[j].msg].sender

\* ------------------------------------------------ the client's SocketProvider
\* provider.userInfo is the store's userInfo (NoUser: undefined); provider.pending
\* says that userInfo changed since the effect last ran, so React will run the
\* effect again; provider.cleanup says that the last run returned the cleanup
\* function; provider.current is socket.current; provider.sockets lists every
\* socket io() returned, with the userId of its query and whether it is still
\* connected (disconnect() was not called on it).
ProviderSocketIds == 1..Len(provider.sockets)

\* setUserInfo : (userInfo) => set({userInfo}). A new object re-runs the effect,
\* undefined over undefined does not. Calls before the effect ran are batched.
setUserInfo(userInfo) ==
    /\ userInfo # NoUser => Len(provider.sockets) < MaxSockets
    /\ provider' = [provider EXCEPT
            !.userInfo = userInfo,
            !.pending  = provider.pending \/ userInfo # NoUser \/ provider.userInfo # NoUser]
    /\ UNCHANGED <<sockets, userSocketMap, messages, channels, deliveries, emitted,
                   boundThroughout>>

\* The cleanup the effect returned: socket.current.disconnect().
Cleanup(p) ==
    IF p.cleanup
    THEN [p EXCEPT !.sockets[p.current].connected = FALSE]
    ELSE p

\* The body of the effect: with userInfo, socket.current = io(HOST, {query:
\* {userId: userInfo._id}}) and the cleanup is returned; without, nothing.
Effect(p) ==
    IF p.userInfo # NoUser
    THEN [p EXCEPT
            !.sockets = Append(p.sockets, [userId |-> p.userInfo, connected |-> TRUE]),
            !.current = Len(p.sockets) + 1,
            !.cleanup = TRUE,
            !.pending = FALSE]
    ELSE [p EXCEPT !.cleanup = FALSE, !.pending = FALSE]

\* the effect run without the cleanup of the previous run
SocketProviderEffectNoCleanup ==
    /\ provider.pending
    /\ provider' = Effect(provider)
    /\ UNCHANGED <<sockets, userSocketMap, messages, channels, deliveries, emitted,
                   boundThroughout>>

\* useEffect(..., [userInfo]): React runs the previous run's cleanup, then the
\* effect, in one commit.
SocketProviderEffect ==
    /\ provider.pending
    /\ provider' = Effect(Cleanup(provider))
    /\ UNCHANGED <<sockets, userSocketMap, messages, channels, deliveries, emitted,
                   boundThroughout>>

UserInfos == Users \cup {NoUser}

UserInfoChanges == \E userInfo \in UserInfos : setUserInfo(userInfo)

NextProvider ==
    \/ UserInfoChanges
    \/ SocketProviderEffect

SpecProvider == Init /\ [][NextProvider]_vars

ConnectedProviderSockets == {i \in ProviderSocketIds : provider.sockets[i].connected}

\* -------------------------------------------------------------------- C36
\* What holds of the provider between commits: at most one of its sockets is
\* connected, and once the effect ran for the current userInfo a socket is
\* connected exactly when userInfo is present, and it is the one made for it.
ProviderHoldsOneSocket ==
    /\ Cardinality(ConnectedProviderSockets) <= 1
    /\ ~provider.pending =>
        /\ (ConnectedProviderSockets # {}) = (provider.userInfo # NoUser)
        /\ \A i \in ConnectedProviderSockets :
            /\ i = provider.current
            /\ provider.sockets[i].userId = provider.userInfo

\* What holds of every step of the provider: a socket is created only with
\* userInfo present and with its id, and a step that runs the effect leaves every
\* socket created before it disconnected.
ProviderStep ==
    /\ Len(provider'.sockets) >= Len(provider.sockets)
    /\ \A i \in ProviderSocketIds :
        /\ provider'.sockets[i].userId = provider.sockets[i].userId
        /\ provider'.sockets[i].connected => provider.sockets[i].connected
    /\ Len(provider'.sockets) > Len(provider.sockets) =>
        /\ Len(provider'.sockets) = Len(provider.sockets) + 1
        /\ provider.userInfo # NoUser
        /\ provider'.sockets[Len(provider'.sockets)].userId = provider.userInfo
    /\ (provider.pending /\ ~provider'.pending) =>
        \A i \in ProviderSocketIds : ~provider'.sockets[i].connected

\* C36: on the client, the SocketProvider holds a connection only while a user
\* is authenticated: no socket is created while userInfo is absent, every run of
\* the effect for a changed userInfo (login, logout, replacement) first
\* disconnects the socket created for the previous userInfo, and at most one
\* socket created by the provider is connected at any time.
C36_ProviderHoldsOneSocketWhileAuthenticated ==
    []ProviderHoldsOneSocket /\ [][ProviderStep]_vars

\* userInfo was replaced by another user's and then removed: the first socket
\* was disconnected when the second was made, and the second at the logout.
C36_Witness ==
    /\ ~provider.pending
    /\ provider.userInfo = NoUser
    /\ \E i, j \in ProviderSocketIds :
        /\ i < j
        /\ provider.sockets[i].userId # provider.sockets[j].userId
        /\ ~provider.sockets[i].connected
        /\ ~provider.sockets[j].connected

====
